---------------------------- MODULE Spec2Model ----------------------------
(***************************************************************************)
(* Nimbus::PathStorage (src/Nimbus/Nimbus/Nimbus/PathStorage.cpp): the     *)
(* path aggregation store (AddPaths), the compact exporter (ToPathData)    *)
(* and the dense exporter (ToSionnaPathData).                              *)
(* Nimbus::PointCloudEnvironment (PointCloudEnvironment.cpp in the same    *)
(* directory): LoadPoints, ComputeVoxelWorld and LinkPointNodes, the steps *)
(* of its Init before the ray tracing data are generated.                  *)
(*                                                                         *)
(* Conventions.                                                            *)
(*  - A std::vector is a function on 0..size-1, so every index of the      *)
(*    model is the index of the source.                                    *)
(*  - A uint32_t is held as the integer congruent to it modulo 2^32 that   *)
(*    lies in -2^31..2^31-1 (its two's-complement reading): 0xFFFFFFFF is  *)
(*    -1, ++ and -- are +1 and -1 (0 - 1 = -1 is the wrap to 0xFFFFFFFF),  *)
(*    and the unsigned order is ULess.  No value of the model comes near   *)
(*    the 2^31 seam of that reading.                                       *)
(*  - A size_t built from such a value is the pair [hi, lo] standing for   *)
(*    hi * 2^32 + lo.                                                      *)
(*  - An access past the end of a vector is undefined behaviour: a read    *)
(*    yields an arbitrary word (drawn from Garbage), a write lands in      *)
(*    memory that is no part of the modelled object.                       *)
(***************************************************************************)
EXTENDS Integers, Sequences, FiniteSets, TLC

\* ------------------------------------------------------------------ bounds

\* Candidates and exporter calls one behaviour performs in total.
MaxWork == 4

\* numPaths of one AddPaths call.
BatchSizes == {1, 2}

\* Words an out-of-range read of m_PathCounts may yield (0xFFFFFFFF, 0, 1).
Garbage == {-1, 0, 1}

\* ------------------------------------------------------- program constants

\* maxNumInteractions handed to the constructor.
MaxNumInteractions == 2

\* ~0u
Sentinel == -1

\* glm::vec3(0.0f)
ZeroVec == <<0, 0, 0>>

PathTypes == {"LineOfSight", "Specular", "Diffraction", "Scattering", "RIS"}

\* enum class PathType, in declaration order.
PathTypeValue ==
    [LineOfSight |-> 0, Specular |-> 1, Diffraction |-> 2, Scattering |-> 3, RIS |-> 4]

\* enum class SionnaPathType, in declaration order; the index of m_MaxLinkPaths.
SionnaPathType == [Specular |-> 0, Diffracted |-> 1, Scattered |-> 2, RIS |-> 3]

SionnaTypeIndices == {SionnaPathType[n] : n \in DOMAIN SionnaPathType}

\* ------------------------------------------------------------- uint32_t

Inc32(x) == x + 1

Dec32(x) == x - 1

ULess(a, b) == IF (a >= 0) = (b >= 0) THEN a < b ELSE a >= 0

\* glm::max on uint32_t
UMax(a, b) == IF ULess(a, b) THEN b ELSE a

\* ------------------------------------------------------------- std::vector

Size(v) == Cardinality(DOMAIN v)

EmptyVec == [i \in {} |-> 0]

EmplaceBack(v, x) == [i \in 0..Size(v) |-> IF i < Size(v) THEN v[i] ELSE x]

\* ------------------------------------------------------------------ hashing

\* Number of digests a PathHashKey can take.
HashSpace == 65536

HashMul == 31

\* CombineHash(hash, v): folds v into the running digest, order-sensitively.
CombineHash(hash, v) == (hash * HashMul + v) % HashSpace

\* CalculateHash(txID, rxID, pathType): the seed digest.
CalculateHash(txID, rxID, pathType) ==
    CombineHash(CombineHash(CombineHash(0, txID), rxID), PathTypeValue[pathType])

RECURSIVE HashLabels(_, _, _, _, _)
HashLabels(hash, labels, base, i, n) ==
    IF i >= n THEN hash
    ELSE HashLabels(CombineHash(hash, labels[base + i]), labels, base, i + 1, n)

\* PathStorage::GetPathHash(pathInfo, &labels[dataIndex])
GetPathHash(pathInfo, labels, dataIndex) ==
    HashLabels(CalculateHash(pathInfo.txID, pathInfo.rxID, pathInfo.pathType),
               labels, dataIndex, 0, pathInfo.numInteractions)

\* PathStorage::GetSionnaPathType, as the uint32_t the callers cast it to.
GetSionnaPathType(type) ==
    CASE type \in {"LineOfSight", "Specular"} -> SionnaPathType.Specular
      [] type = "Diffraction" -> SionnaPathType.Diffracted
      [] type = "Scattering" -> SionnaPathType.Scattered
      [] type = "RIS" -> SionnaPathType.RIS


\* ------------------------------------------------------------------ inputs

\* A workload: the transmitter and receiver counts the store is constructed
\* with and the small sets the candidate paths of one behaviour are drawn from
\* (txID < numTx and rxID < numRx throughout).  samples pairs a time delay
\* with the ray that found the path; labelSeqs are labels[0..numInteractions).
\*   identity : one link, two orders of the same two labels, delays 3 and 2,
\*              two rays at delay 2;
\*   collision: one link, the label sequences <<963>> and <<1, 2>>, which
\*              GetPathHash maps to one digest, and <<2, 1>>;
\*   classes  : one link, the five path types;
\*   sightline: one link, LineOfSight candidates with three different labels;
\*   grid     : 2 x 2 links, every index rxID * 2 + txID inside the count table;
\*   wide     : 2 transmitters and 3 receivers, where rxID * 2 + txID reaches 5.
Scenes ==
    { [name |-> "identity", numTx |-> 1, numRx |-> 1, txIDs |-> {0}, rxIDs |-> {0},
       types |-> {"Specular"}, labelSeqs |-> {<<1, 2>>, <<2, 1>>},
       samples |-> {<<3, 1>>, <<2, 1>>, <<2, 2>>}],
      [name |-> "collision", numTx |-> 1, numRx |-> 1, txIDs |-> {0}, rxIDs |-> {0},
       types |-> {"Specular"}, labelSeqs |-> {<<963>>, <<1, 2>>, <<2, 1>>},
       samples |-> {<<3, 1>>, <<2, 2>>}],
      [name |-> "classes", numTx |-> 1, numRx |-> 1, txIDs |-> {0}, rxIDs |-> {0},
       types |-> PathTypes, labelSeqs |-> {<<1>>},
       samples |-> {<<2, 1>>}],
      [name |-> "sightline", numTx |-> 1, numRx |-> 1, txIDs |-> {0}, rxIDs |-> {0},
       types |-> {"LineOfSight"}, labelSeqs |-> {<<1>>, <<2>>, <<3>>},
       samples |-> {<<2, 1>>}],
      [name |-> "grid", numTx |-> 2, numRx |-> 2, txIDs |-> {0, 1}, rxIDs |-> {1},
       types |-> {"LineOfSight", "Specular", "Diffraction"}, labelSeqs |-> {<< >>},
       samples |-> {<<2, 1>>}],
      [name |-> "wide", numTx |-> 2, numRx |-> 3, txIDs |-> {1}, rxIDs |-> {0, 2},
       types |-> {"LineOfSight", "Specular"}, labelSeqs |-> {<< >>},
       samples |-> {<<2, 1>>}] }

IaSlots == 0..(MaxNumInteractions - 1)

\* One candidate path as the tracing kernels hand it over: its PathInfo and its
\* MaxNumInteractions interaction records, the unused ones zero / sentinel.
Candidate(txID, rxID, type, ls, sample) ==
    [txID |-> txID, rxID |-> rxID, pathType |-> type,
     numInteractions |-> Len(ls), timeDelay |-> sample[1],
     interactions |-> [i \in IaSlots |-> IF i < Len(ls) THEN <<sample[2], i + 1, 1>> ELSE ZeroVec],
     normals |-> [i \in IaSlots |-> IF i < Len(ls) THEN <<1, sample[2], i + 1>> ELSE ZeroVec],
     labels |-> [i \in IaSlots |-> IF i < Len(ls) THEN ls[i + 1] ELSE Sentinel],
     materials |-> [i \in IaSlots |-> IF i < Len(ls) THEN 10 * sample[2] + i ELSE Sentinel]]

Pool(sc) ==
    { Candidate(tx, rx, ty, ls, sm) :
        tx \in sc.txIDs, rx \in sc.rxIDs, ty \in sc.types,
        ls \in {l \in sc.labelSeqs : Len(l) <= MaxNumInteractions}, sm \in sc.samples }

Batches(sc, room) ==
    UNION { [1..n -> Pool(sc)] : n \in {b \in BatchSizes : b <= room} }

\* The arguments of AddPaths built from a batch: pathInfos, and the four flat
\* arrays with a stride of MaxNumInteractions records per path.
PathInfoOf(c) ==
    [txID |-> c.txID, rxID |-> c.rxID, pathType |-> c.pathType,
     numInteractions |-> c.numInteractions, timeDelay |-> c.timeDelay]

PathInfos(batch) == [p \in 0..(Len(batch) - 1) |-> PathInfoOf(batch[p + 1])]

Flat(batch, field) ==
    [j \in 0..(Len(batch) * MaxNumInteractions - 1) |->
        batch[(j \div MaxNumInteractions) + 1][field][j % MaxNumInteractions]]

\* ------------------------------------------------------------------- state

VARIABLES
    scene,              \* the workload this behaviour draws its inputs from
    m_Transmitters,     \* std::vector<glm::vec3>
    m_Receivers,        \* std::vector<glm::vec3>
    m_PathMap,          \* PathHashKey -> [timeDelay, pathIndex]
    m_InteractionData,  \* per interaction slot: interactions, normals, labels, materials
    m_PathCounts,       \* per table index: the four per-class counters
    m_MaxLinkPaths,     \* per class: the largest link counter seen
    m_TimeDelays, m_TxIDs, m_RxIDs, m_PathTypes, m_NumInteractions,
    pathData,           \* what the last ToPathData call returned
    sionnaData,         \* what the last ToSionnaPathData call returned
    slots,              \* history: the locals of each iteration of that call
    numExports,         \* history: ToSionnaPathData calls so far
    lastCall,           \* history: the member function called last
    submitted,          \* history: every candidate handed to AddPaths, in order
    work,               \* candidates and exporter calls so far
    points,             \* PointCloudEnvironment::Init: the PointData array handed in
    voxelSize,          \* PointCloudEnvironment::Init: the voxel edge handed in
    pointNodes,         \* the std::vector<PointNode> of Init
    voxelNodeIndices,   \* the std::vector<glm::uvec2> of Init
    m_Aabb,             \* PointCloudEnvironment: [min, max]
    m_VoxelWorldInfo,   \* PointCloudEnvironment: [worldMin, voxelSize, dimensions]
    m_IeCount,          \* PointCloudEnvironment: groups numbered so far
    initStep            \* how far Init of the environment has come

storeVars == <<m_Transmitters, m_Receivers, m_PathMap, m_InteractionData, m_PathCounts,
               m_MaxLinkPaths, m_TimeDelays, m_TxIDs, m_RxIDs, m_PathTypes,
               m_NumInteractions>>

outVars == <<pathData, sionnaData, slots, numExports>>

envVars == <<points, voxelSize, pointNodes, voxelNodeIndices, m_Aabb, m_VoxelWorldInfo,
             m_IeCount, initStep>>

vars == <<scene, storeVars, outVars, lastCall, submitted, work, envVars>>

\* The store as one value, for the loops that thread it.
Store ==
    [m_Transmitters |-> m_Transmitters, m_Receivers |-> m_Receivers,
     m_PathMap |-> m_PathMap, m_InteractionData |-> m_InteractionData,
     m_PathCounts |-> m_PathCounts, m_MaxLinkPaths |-> m_MaxLinkPaths,
     m_TimeDelays |-> m_TimeDelays, m_TxIDs |-> m_TxIDs, m_RxIDs |-> m_RxIDs,
     m_PathTypes |-> m_PathTypes, m_NumInteractions |-> m_NumInteractions]

\* PathStorage::PathStorage(maxNumInteractions, txs, txCount, rxs, rxCount)
PathStorage(maxNumInteractions, txCount, rxCount) ==
    [m_Transmitters |-> [t \in 0..(txCount - 1) |-> <<"tx", t>>],
     m_Receivers |-> [r \in 0..(rxCount - 1) |-> <<"rx", r>>],
     m_PathMap |-> EmptyVec,
     m_InteractionData |->
        [i \in 0..(maxNumInteractions - 1) |->
            [interactions |-> EmptyVec, normals |-> EmptyVec,
             labels |-> EmptyVec, materials |-> EmptyVec]],
     m_PathCounts |-> [l \in 0..(txCount + rxCount - 1) |-> [t \in SionnaTypeIndices |-> 0]],
     m_MaxLinkPaths |-> [t \in SionnaTypeIndices |-> 0],
     m_TimeDelays |-> EmptyVec, m_TxIDs |-> EmptyVec, m_RxIDs |-> EmptyVec,
     m_PathTypes |-> EmptyVec, m_NumInteractions |-> EmptyVec]

\* The element of m_PathCounts that AddPaths and ToSionnaPathData address.
PathCountIndex(s, rxID, txID) == rxID * Size(s.m_Transmitters) + txID

InTable(s, index) == index < Size(s.m_PathCounts)

\* ----------------------------------------------------------------- AddPaths

\* m_PathMap.try_emplace(hash, timeDelay, m_PathMap.size())
TryEmplace(map, hash, timeDelay) ==
    IF hash \in DOMAIN map
    THEN [map |-> map, emplaced |-> FALSE]
    ELSE [map |-> [h \in DOMAIN map \cup {hash} |->
                      IF h = hash
                      THEN [timeDelay |-> timeDelay, pathIndex |-> Cardinality(DOMAIN map)]
                      ELSE map[h]],
          emplaced |-> TRUE]

\* Lines 43-59 without the else branch: nothing appended to the slots past the
\* path's interaction count.
AppendInteractionData_NoPadding(data, pathInfo, interactions, normals, labels, materials, dataIndex) ==
    [iaIndex \in DOMAIN data |->
        IF iaIndex < pathInfo.numInteractions
        THEN [interactions |-> EmplaceBack(data[iaIndex].interactions, interactions[dataIndex + iaIndex]),
              normals |-> EmplaceBack(data[iaIndex].normals, normals[dataIndex + iaIndex]),
              labels |-> EmplaceBack(data[iaIndex].labels, labels[dataIndex + iaIndex]),
              materials |-> EmplaceBack(data[iaIndex].materials, materials[dataIndex + iaIndex])]
        ELSE data[iaIndex]]

\* Lines 43-59: one element appended to every array of every interaction slot.
AppendInteractionData(data, pathInfo, interactions, normals, labels, materials, dataIndex) ==
    [iaIndex \in DOMAIN data |->
        IF iaIndex < pathInfo.numInteractions
        THEN [interactions |-> EmplaceBack(data[iaIndex].interactions, interactions[dataIndex + iaIndex]),
              normals |-> EmplaceBack(data[iaIndex].normals, normals[dataIndex + iaIndex]),
              labels |-> EmplaceBack(data[iaIndex].labels, labels[dataIndex + iaIndex]),
              materials |-> EmplaceBack(data[iaIndex].materials, materials[dataIndex + iaIndex])]
        ELSE [interactions |-> EmplaceBack(data[iaIndex].interactions, ZeroVec),
              normals |-> EmplaceBack(data[iaIndex].normals, ZeroVec),
              labels |-> EmplaceBack(data[iaIndex].labels, Sentinel),
              materials |-> EmplaceBack(data[iaIndex].materials, Sentinel)]]

\* Line 61 without glm::max: m_MaxLinkPaths takes the link's new count.
CountNewPath_NoMax(s, pathInfo, junk) ==
    LET typeIndex == GetSionnaPathType(pathInfo.pathType)
        index == PathCountIndex(s, pathInfo.rxID, pathInfo.txID)
        count == IF InTable(s, index) THEN Inc32(s.m_PathCounts[index][typeIndex])
                 ELSE Inc32(junk)
    IN  [m_PathCounts |->
            IF InTable(s, index)
            THEN [s.m_PathCounts EXCEPT ![index][typeIndex] = count]
            ELSE s.m_PathCounts,
         m_MaxLinkPaths |-> [s.m_MaxLinkPaths EXCEPT ![typeIndex] = count]]

\* Line 61: ++m_PathCounts[rxID * m_Transmitters.size() + txID][typeIndex] and the
\* max it feeds.  Past the end of the table the word read is junk and the word
\* written is no element of the table.
CountNewPath(s, pathInfo, junk) ==
    LET typeIndex == GetSionnaPathType(pathInfo.pathType)
        index == PathCountIndex(s, pathInfo.rxID, pathInfo.txID)
        count == IF InTable(s, index) THEN Inc32(s.m_PathCounts[index][typeIndex])
                 ELSE Inc32(junk)
    IN  [m_PathCounts |->
            IF InTable(s, index)
            THEN [s.m_PathCounts EXCEPT ![index][typeIndex] = count]
            ELSE s.m_PathCounts,
         m_MaxLinkPaths |->
            [s.m_MaxLinkPaths EXCEPT ![typeIndex] = UMax(s.m_MaxLinkPaths[typeIndex], count)]]

\* Lines 41-67: the candidate's identity was not in the map.
InsertPath(s, map, pathInfo, interactions, normals, labels, materials, dataIndex, junk) ==
    LET counted == CountNewPath(s, pathInfo, junk)
    IN  [s EXCEPT
            !.m_PathMap = map,
            !.m_InteractionData =
                AppendInteractionData(s.m_InteractionData, pathInfo, interactions,
                                      normals, labels, materials, dataIndex),
            !.m_PathCounts = counted.m_PathCounts,
            !.m_MaxLinkPaths = counted.m_MaxLinkPaths,
            !.m_TimeDelays = EmplaceBack(s.m_TimeDelays, pathInfo.timeDelay),
            !.m_TxIDs = EmplaceBack(s.m_TxIDs, pathInfo.txID),
            !.m_RxIDs = EmplaceBack(s.m_RxIDs, pathInfo.rxID),
            !.m_PathTypes = EmplaceBack(s.m_PathTypes, pathInfo.pathType),
            !.m_NumInteractions = EmplaceBack(s.m_NumInteractions, pathInfo.numInteractions)]

\* OverwritePath with the map entry built anew from the time delay, which
\* loses its path index.
OverwritePath_ResetsIndex(s, hash, pathInfo, interactions, normals, labels, materials, dataIndex) ==
    [s EXCEPT
        !.m_PathMap = [s.m_PathMap EXCEPT ![hash] = [timeDelay |-> pathInfo.timeDelay,
                                                     pathIndex |-> 0]],
        !.m_TimeDelays = [s.m_TimeDelays EXCEPT ![s.m_PathMap[hash].pathIndex] = pathInfo.timeDelay],
        !.m_NumInteractions = [s.m_NumInteractions EXCEPT ![s.m_PathMap[hash].pathIndex] =
                                  pathInfo.numInteractions]]

\* OverwritePath resetting the slots past the candidate's interaction count as
\* the insert branch pads them.
OverwritePath_Pads(s, hash, pathInfo, interactions, normals, labels, materials, dataIndex) ==
    LET at == s.m_PathMap[hash].pathIndex
    IN  [s EXCEPT
            !.m_PathMap = [s.m_PathMap EXCEPT ![hash].timeDelay = pathInfo.timeDelay],
            !.m_InteractionData =
                [iaIndex \in DOMAIN s.m_InteractionData |->
                    IF iaIndex < pathInfo.numInteractions
                    THEN [interactions |-> [s.m_InteractionData[iaIndex].interactions
                                              EXCEPT ![at] = interactions[dataIndex + iaIndex]],
                          normals |-> [s.m_InteractionData[iaIndex].normals
                                              EXCEPT ![at] = normals[dataIndex + iaIndex]],
                          labels |-> [s.m_InteractionData[iaIndex].labels
                                              EXCEPT ![at] = labels[dataIndex + iaIndex]],
                          materials |-> [s.m_InteractionData[iaIndex].materials
                                              EXCEPT ![at] = materials[dataIndex + iaIndex]]]
                    ELSE [interactions |-> [s.m_InteractionData[iaIndex].interactions
                                              EXCEPT ![at] = ZeroVec],
                          normals |-> [s.m_InteractionData[iaIndex].normals
                                              EXCEPT ![at] = ZeroVec],
                          labels |-> [s.m_InteractionData[iaIndex].labels
                                              EXCEPT ![at] = Sentinel],
                          materials |-> [s.m_InteractionData[iaIndex].materials
                                              EXCEPT ![at] = Sentinel]]],
            !.m_TimeDelays = [s.m_TimeDelays EXCEPT ![at] = pathInfo.timeDelay],
            !.m_NumInteractions = [s.m_NumInteractions EXCEPT ![at] = pathInfo.numInteractions]]

\* OverwritePath without the loop of lines 71-77: the time delay and the
\* interaction count are replaced, the interaction records are not.
OverwritePath_KeepsRecords(s, hash, pathInfo, interactions, normals, labels, materials, dataIndex) ==
    LET at == s.m_PathMap[hash].pathIndex
    IN  [s EXCEPT
            !.m_PathMap = [s.m_PathMap EXCEPT ![hash].timeDelay = pathInfo.timeDelay],
            !.m_TimeDelays = [s.m_TimeDelays EXCEPT ![at] = pathInfo.timeDelay],
            !.m_NumInteractions = [s.m_NumInteractions EXCEPT ![at] = pathInfo.numInteractions]]

\* Lines 70-79: the identity is in the map with a greater time delay.
OverwritePath(s, hash, pathInfo, interactions, normals, labels, materials, dataIndex) ==
    LET at == s.m_PathMap[hash].pathIndex
    IN  [s EXCEPT
            !.m_PathMap = [s.m_PathMap EXCEPT ![hash].timeDelay = pathInfo.timeDelay],
            !.m_InteractionData =
                [iaIndex \in DOMAIN s.m_InteractionData |->
                    IF iaIndex < pathInfo.numInteractions
                    THEN [interactions |-> [s.m_InteractionData[iaIndex].interactions
                                              EXCEPT ![at] = interactions[dataIndex + iaIndex]],
                          normals |-> [s.m_InteractionData[iaIndex].normals
                                              EXCEPT ![at] = normals[dataIndex + iaIndex]],
                          labels |-> [s.m_InteractionData[iaIndex].labels
                                              EXCEPT ![at] = labels[dataIndex + iaIndex]],
                          materials |-> [s.m_InteractionData[iaIndex].materials
                                              EXCEPT ![at] = materials[dataIndex + iaIndex]]]
                    ELSE s.m_InteractionData[iaIndex]],
            !.m_TimeDelays = [s.m_TimeDelays EXCEPT ![at] = pathInfo.timeDelay],
            !.m_NumInteractions = [s.m_NumInteractions EXCEPT ![at] = pathInfo.numInteractions]]

\* Line 68 with >= for >: an equal time delay overwrites too.
Improves_OrEqual(entry, pathInfo) == entry.timeDelay >= pathInfo.timeDelay

\* Line 68 with the comparison turned round.
Improves_Flipped(entry, pathInfo) == entry.timeDelay < pathInfo.timeDelay

\* The condition of line 68.
Improves(entry, pathInfo) == entry.timeDelay > pathInfo.timeDelay

\* AddPath appending a better duplicate as a new path instead of overwriting.
AddPath_Reinserts(s, pathIndex, pathInfos, interactions, normals, labels, materials, junk) ==
    LET pathInfo == pathInfos[pathIndex]
        dataIndex == pathIndex * Size(s.m_InteractionData)
        hash == GetPathHash(pathInfo, labels, dataIndex)
        tried == TryEmplace(s.m_PathMap, hash, pathInfo.timeDelay)
    IN  IF tried.emplaced \/ s.m_PathMap[hash].timeDelay > pathInfo.timeDelay
        THEN InsertPath(s, tried.map, pathInfo, interactions, normals, labels,
                        materials, dataIndex, junk[pathIndex])
        ELSE s

\* AddPath letting a candidate with an equal time delay overwrite as well.
AddPath_LaterTieWins(s, pathIndex, pathInfos, interactions, normals, labels, materials, junk) ==
    LET pathInfo == pathInfos[pathIndex]
        dataIndex == pathIndex * Size(s.m_InteractionData)
        hash == GetPathHash(pathInfo, labels, dataIndex)
        tried == TryEmplace(s.m_PathMap, hash, pathInfo.timeDelay)
    IN  IF tried.emplaced
        THEN InsertPath(s, tried.map, pathInfo, interactions, normals, labels,
                        materials, dataIndex, junk[pathIndex])
        ELSE IF s.m_PathMap[hash].timeDelay >= pathInfo.timeDelay
        THEN OverwritePath(s, hash, pathInfo, interactions, normals, labels,
                           materials, dataIndex)
        ELSE s

\* Lines 37-80: the body of the loop for one pathIndex.
AddPath(s, pathIndex, pathInfos, interactions, normals, labels, materials, junk) ==
    LET pathInfo == pathInfos[pathIndex]
        dataIndex == pathIndex * Size(s.m_InteractionData)
        hash == GetPathHash(pathInfo, labels, dataIndex)
        tried == TryEmplace(s.m_PathMap, hash, pathInfo.timeDelay)
    IN  IF tried.emplaced
        THEN InsertPath(s, tried.map, pathInfo, interactions, normals, labels,
                        materials, dataIndex, junk[pathIndex])
        ELSE IF Improves(s.m_PathMap[hash], pathInfo)
        THEN OverwritePath(s, hash, pathInfo, interactions, normals, labels,
                           materials, dataIndex)
        ELSE s

RECURSIVE AddPathsFrom(_, _, _, _, _, _, _, _, _)
AddPathsFrom(s, pathIndex, numPaths, pathInfos, interactions, normals, labels, materials, junk) ==
    IF pathIndex >= numPaths THEN s
    ELSE AddPathsFrom(AddPath(s, pathIndex, pathInfos, interactions, normals, labels,
                              materials, junk),
                      pathIndex + 1, numPaths, pathInfos, interactions, normals,
                      labels, materials, junk)

\* PathStorage::AddPaths(numPaths, pathInfos, interactions, normals, labels, materials)
AddPathsResult(s, numPaths, pathInfos, interactions, normals, labels, materials, junk) ==
    AddPathsFrom(s, 0, numPaths, pathInfos, interactions, normals, labels, materials, junk)

SetStore(s) ==
    /\ m_Transmitters' = s.m_Transmitters
    /\ m_Receivers' = s.m_Receivers
    /\ m_PathMap' = s.m_PathMap
    /\ m_InteractionData' = s.m_InteractionData
    /\ m_PathCounts' = s.m_PathCounts
    /\ m_MaxLinkPaths' = s.m_MaxLinkPaths
    /\ m_TimeDelays' = s.m_TimeDelays
    /\ m_TxIDs' = s.m_TxIDs
    /\ m_RxIDs' = s.m_RxIDs
    /\ m_PathTypes' = s.m_PathTypes
    /\ m_NumInteractions' = s.m_NumInteractions

\* The junk words a call may read: one per path of the batch, arbitrary where the
\* path's link lies past the end of the count table (and 0, unread, elsewhere).
JunkChoices(s, batch) ==
    { j \in [0..(Len(batch) - 1) -> Garbage \cup {0}] :
        \A p \in DOMAIN j :
            InTable(s, PathCountIndex(s, batch[p + 1].rxID, batch[p + 1].txID)) => j[p] = 0 }

AddPaths ==
    /\ work < MaxWork
    /\ \E batch \in Batches(scene, MaxWork - work) :
       \E junk \in JunkChoices(Store, batch) :
          /\ SetStore(AddPathsResult(Store, Len(batch), PathInfos(batch),
                                     Flat(batch, "interactions"), Flat(batch, "normals"),
                                     Flat(batch, "labels"), Flat(batch, "materials"), junk))
          /\ submitted' = submitted \o batch
          /\ work' = work + Len(batch)
    /\ lastCall' = "AddPaths"
    /\ UNCHANGED <<scene, outVars>>
    /\ UNCHANGED envVars

\* --------------------------------------------------------------- ToPathData

\* insert(begin(), ..) in place of insert(end(), ..): b in front of a.
Concat_AtFront(a, b) ==
    [i \in 0..(Size(a) + Size(b) - 1) |-> IF i < Size(b) THEN b[i] ELSE a[i - Size(b)]]

Concat(a, b) ==
    [i \in 0..(Size(a) + Size(b) - 1) |-> IF i < Size(a) THEN a[i] ELSE b[i - Size(a)]]

\* Lines 100-106 for one of the four buffers: the slot arrays end to end.
RECURSIVE Flatten(_, _, _, _)
Flatten(data, field, i, acc) ==
    IF i >= Size(data) THEN acc
    ELSE Flatten(data, field, i + 1, Concat(acc, data[i][field]))

\* PathData{}
EmptyPathData ==
    [maxNumIa |-> 0, maxLinkPaths |-> 0, transmitters |-> EmptyVec, receivers |-> EmptyVec,
     interactions |-> EmptyVec, normals |-> EmptyVec, labels |-> EmptyVec,
     materials |-> EmptyVec, timeDelays |-> EmptyVec, txIDs |-> EmptyVec,
     rxIDs |-> EmptyVec, pathTypes |-> EmptyVec, numInteractions |-> EmptyVec]

\* PathStorage::ToPathData(): the value returned (the store is not written).
ToPathDataResult(s) ==
    [maxNumIa |-> Size(s.m_InteractionData),
     maxLinkPaths |-> 0,
     transmitters |-> s.m_Transmitters,
     receivers |-> s.m_Receivers,
     interactions |-> Flatten(s.m_InteractionData, "interactions", 0, EmptyVec),
     normals |-> Flatten(s.m_InteractionData, "normals", 0, EmptyVec),
     labels |-> Flatten(s.m_InteractionData, "labels", 0, EmptyVec),
     materials |-> Flatten(s.m_InteractionData, "materials", 0, EmptyVec),
     timeDelays |-> s.m_TimeDelays,
     txIDs |-> s.m_TxIDs,
     rxIDs |-> s.m_RxIDs,
     pathTypes |-> s.m_PathTypes,
     numInteractions |-> s.m_NumInteractions]

\* ToPathData with line 88 clearing the store's own m_MaxLinkPaths.
ToPathData_ClearsMaxLinkPaths ==
    /\ work < MaxWork
    /\ pathData' = ToPathDataResult(Store)
    /\ m_MaxLinkPaths' = [t \in SionnaTypeIndices |-> 0]
    /\ work' = work + 1
    /\ lastCall' = "ToPathData"
    /\ UNCHANGED <<scene, m_Transmitters, m_Receivers, m_PathMap, m_InteractionData,
                   m_PathCounts, m_TimeDelays, m_TxIDs, m_RxIDs, m_PathTypes,
                   m_NumInteractions, sionnaData, slots, numExports, submitted>>
    /\ UNCHANGED envVars

ToPathData ==
    /\ work < MaxWork
    /\ pathData' = ToPathDataResult(Store)
    /\ work' = work + 1
    /\ lastCall' = "ToPathData"
    /\ UNCHANGED <<scene, storeVars, sionnaData, slots, numExports, submitted>>
    /\ UNCHANGED envVars

\* --------------------------------------------------------- ToSionnaPathData

\* size_t: hi * 2^32 + lo.
SizeT(x) == IF x >= 0 THEN [hi |-> 0, lo |-> x] ELSE [hi |-> 1, lo |-> x]

Plus(a, n) == [hi |-> a.hi, lo |-> a.lo + n]

\* The index lies inside a vector of that size.
Within(index, size) == index.hi = 0 /\ index.lo < size

\* v[index] = x; past the end of v the write is no write to v.
Put(v, index, x) ==
    IF Within(index, Size(v)) THEN [v EXCEPT ![index.lo] = x] ELSE v

\* glm::normalize(to - from) and the negation of a vector, as terms.
Normalize(to, from) == <<"unit", from, to>>

Negate(v) == <<"neg", v>>

Filled(n, x) == [i \in 0..(n - 1) |-> x]

\* One class of SionnaPathData after ReservePaths(): the interaction-indexed
\* arrays hold maxNumIa (incidentRays: maxNumIa + 1) blocks of
\* numRx * numTx * maxLinkPaths elements, the path-indexed arrays one block;
\* mask is 0 and timeDelays -1 where nothing is written.
ReservedPaths(maxNumIa, numRx, numTx, maxLinkPaths) ==
    LET pathBufferElements == numRx * numTx * maxLinkPaths
    IN  [interactions |-> Filled(maxNumIa * pathBufferElements, ZeroVec),
         normals |-> Filled(maxNumIa * pathBufferElements, ZeroVec),
         materials |-> Filled(maxNumIa * pathBufferElements, 0),
         incidentRays |-> Filled((maxNumIa + 1) * pathBufferElements, ZeroVec),
         deflectedRays |-> Filled(maxNumIa * pathBufferElements, ZeroVec),
         timeDelays |-> Filled(pathBufferElements, -1),
         mask |-> Filled(pathBufferElements, 0),
         kTx |-> Filled(pathBufferElements, ZeroVec),
         kRx |-> Filled(pathBufferElements, ZeroVec)]

\* SionnaPathData{}
EmptySionnaPathData ==
    [transmitters |-> EmptyVec, receivers |-> EmptyVec, maxNumIa |-> 0,
     maxLinkPaths |-> [t \in SionnaTypeIndices |-> 0],
     paths |-> [t \in SionnaTypeIndices |-> ReservedPaths(0, 0, 0, 0)]]

\* Lines 117-126.
ReservePaths(s) ==
    [transmitters |-> s.m_Transmitters, receivers |-> s.m_Receivers,
     maxNumIa |-> Size(s.m_InteractionData),
     maxLinkPaths |-> s.m_MaxLinkPaths,
     paths |-> [t \in SionnaTypeIndices |->
                  ReservedPaths(Size(s.m_InteractionData), Size(s.m_Receivers),
                                Size(s.m_Transmitters), s.m_MaxLinkPaths[t])]]

\* Line 156 with the decrement written after its operand: the value used is
\* the one the counter held.
TakeSlot_PostDecrement(s, rxID, txID, typeIndex, junk) ==
    LET index == PathCountIndex(s, rxID, txID)
        before == IF InTable(s, index) THEN s.m_PathCounts[index][typeIndex] ELSE junk
    IN  [before |-> before,
         value |-> before,
         m_PathCounts |->
            IF InTable(s, index)
            THEN [s.m_PathCounts EXCEPT ![index][typeIndex] = Dec32(before)]
            ELSE s.m_PathCounts]

\* Line 156: --m_PathCounts[rxID * m_Transmitters.size() + txID][typeIndex].
\* before is the word the decrement found, value the word it yields.
TakeSlot(s, rxID, txID, typeIndex, junk) ==
    LET index == PathCountIndex(s, rxID, txID)
        before == IF InTable(s, index) THEN s.m_PathCounts[index][typeIndex] ELSE junk
    IN  [before |-> before,
         value |-> Dec32(before),
         m_PathCounts |->
            IF InTable(s, index)
            THEN [s.m_PathCounts EXCEPT ![index][typeIndex] = Dec32(before)]
            ELSE s.m_PathCounts]

\* Lines 160-171: the writes of interaction slot ia.
RECURSIVE WriteInteractions(_, _, _, _, _, _, _, _, _)
WriteInteractions(out, s, pathIndex, ia, tx, rx, numInteractions, block, pathDataIndex) ==
    IF ia >= Size(s.m_InteractionData) THEN out
    ELSE
      LET iaOffset == ia * block
          pathIaIndex == Plus(pathDataIndex, iaOffset)
          iaPoint == s.m_InteractionData[ia].interactions[pathIndex]
          incident == IF ia > 0
                      THEN Normalize(iaPoint, s.m_InteractionData[ia - 1].interactions[pathIndex])
                      ELSE Normalize(iaPoint, tx)
          deflected == IF ia < numInteractions - 1
                       THEN Normalize(s.m_InteractionData[ia + 1].interactions[pathIndex], iaPoint)
                       ELSE Normalize(rx, iaPoint)
          written == [out EXCEPT
                        !.interactions = Put(@, pathIaIndex, iaPoint),
                        !.normals = Put(@, pathIaIndex, s.m_InteractionData[ia].normals[pathIndex]),
                        !.materials = Put(@, pathIaIndex, s.m_InteractionData[ia].materials[pathIndex]),
                        !.incidentRays = Put(@, pathIaIndex, incident),
                        !.deflectedRays = Put(@, pathIaIndex, deflected)]
      IN  WriteInteractions(written, s, pathIndex, ia + 1, tx, rx, numInteractions,
                            block, pathDataIndex)

\* Lines 148-186: the body of the loop for one pathIndex.  st holds the store,
\* the output so far and the locals of the iterations done.  totalDistance and
\* the four angles are functions of the timeDelays, kTx and kRx elements written
\* at the same index and are left out.
ExportPath(st, pathIndex, junk) ==
    LET s == st.store
        typeIndex == GetSionnaPathType(s.m_PathTypes[pathIndex])
        txID == s.m_TxIDs[pathIndex]
        rxID == s.m_RxIDs[pathIndex]
        tx == s.m_Transmitters[txID]
        rx == s.m_Receivers[rxID]
        numInteractions == s.m_NumInteractions[pathIndex]
        taken == TakeSlot(s, rxID, txID, typeIndex, junk[pathIndex])
        pathOffset == SizeT(taken.value)
        txOffset == txID * s.m_MaxLinkPaths[typeIndex]
        rxOffset == rxID * Size(s.m_Transmitters) * s.m_MaxLinkPaths[typeIndex]
        block == Size(s.m_Receivers) * Size(s.m_Transmitters) * s.m_MaxLinkPaths[typeIndex]
        pathDataIndex == Plus(pathOffset, txOffset + rxOffset)
        kTx == IF numInteractions > 0
               THEN Normalize(s.m_InteractionData[0].interactions[pathIndex], tx)
               ELSE Normalize(rx, tx)
        kRx == IF numInteractions > 0
               THEN Normalize(s.m_InteractionData[numInteractions - 1].interactions[pathIndex], rx)
               ELSE Normalize(tx, rx)
        incidentToRxIndex == numInteractions * block
        looped == WriteInteractions(st.out.paths[typeIndex], s, pathIndex, 0, tx, rx,
                                    numInteractions, block, pathDataIndex)
        written == [looped EXCEPT
                      !.timeDelays = Put(@, pathDataIndex, s.m_TimeDelays[pathIndex]),
                      !.mask = Put(@, pathDataIndex, 1),
                      !.kTx = Put(@, pathDataIndex, kTx),
                      !.kRx = Put(@, pathDataIndex, kRx),
                      !.incidentRays = Put(@, Plus(pathDataIndex, incidentToRxIndex), Negate(kRx))]
    IN  [store |-> [s EXCEPT !.m_PathCounts = taken.m_PathCounts],
         out |-> [st.out EXCEPT !.paths[typeIndex] = written],
         slots |-> EmplaceBack(st.slots,
                      [typeIndex |-> typeIndex, txID |-> txID, rxID |-> rxID,
                       before |-> taken.before, pathOffset |-> taken.value,
                       pathDataIndex |-> pathDataIndex,
                       incidentToRx |-> Plus(pathDataIndex, incidentToRxIndex)])]

RECURSIVE ExportFrom(_, _, _, _)
ExportFrom(st, pathIndex, numTotalPaths, junk) ==
    IF pathIndex >= numTotalPaths THEN st
    ELSE ExportFrom(ExportPath(st, pathIndex, junk), pathIndex + 1, numTotalPaths, junk)

\* ToSionnaPathData clearing m_MaxLinkPaths once the paths are written.
ToSionnaPathDataResult_ClearsMax(s, junk) ==
    LET done == ExportFrom([store |-> s, out |-> ReservePaths(s), slots |-> EmptyVec],
                           0, Size(s.m_TxIDs), junk)
    IN  [done EXCEPT !.store.m_MaxLinkPaths = [t \in SionnaTypeIndices |-> 0]]

\* PathStorage::ToSionnaPathData()
ToSionnaPathDataResult(s, junk) ==
    ExportFrom([store |-> s, out |-> ReservePaths(s), slots |-> EmptyVec],
               0, Size(s.m_TxIDs), junk)

\* One junk word per retained path, arbitrary where its link lies past the end
\* of the count table.
ExportJunkChoices(s) ==
    { j \in [DOMAIN s.m_TxIDs -> Garbage \cup {0}] :
        \A k \in DOMAIN j :
            InTable(s, PathCountIndex(s, s.m_RxIDs[k], s.m_TxIDs[k])) => j[k] = 0 }

ToSionnaPathData ==
    /\ work < MaxWork
    /\ \E junk \in ExportJunkChoices(Store) :
          LET done == ToSionnaPathDataResult(Store, junk)
          IN  /\ SetStore(done.store)
              /\ sionnaData' = done.out
              /\ slots' = done.slots
    /\ numExports' = numExports + 1
    /\ work' = work + 1
    /\ lastCall' = "ToSionnaPathData"
    /\ UNCHANGED <<scene, pathData, submitted>>
    /\ UNCHANGED envVars

\* ---------------------------------------------------- PointCloudEnvironment
\* src/Nimbus/Nimbus/Nimbus/PointCloudEnvironment.cpp.  Lengths are held in
\* hundredths of a unit, so that the bias 0.01f of LoadPoints is the integer 1.

\* numPoints of one Init call, at most.
MaxPoints == 4

\* The positions, labels and voxel edges the PointData arrays are drawn from:
\* with an edge of 150 the first two positions share a voxel and the other two
\* lie one voxel further along x and along y; with an edge of 300 all four
\* share one voxel.
PointPositions == {<<0, 0, 0>>, <<100, 0, 0>>, <<200, 0, 0>>, <<0, 200, 0>>}

PointLabels == {1, 2}

VoxelSizes == {150, 300}

PointDataOf(position, label) ==
    [position |-> position, normal |-> <<0, 0, 100>>, label |-> label, material |-> 10 + label]

PointArrays ==
    UNION { [0..(n - 1) -> { PointDataOf(p, l) : p \in PointPositions, l \in PointLabels }] :
            n \in 1..MaxPoints }

\* Constants::InvalidPointIndex (0xFFFFFFFF)
InvalidPointIndex == -1

\* constexpr float bias = 0.01f
LoadPointsBias == 1

\* glm::min and glm::max on vec3
VecMin(a, b) == [c \in 1..3 |-> IF a[c] < b[c] THEN a[c] ELSE b[c]]

VecMax(a, b) == [c \in 1..3 |-> IF a[c] > b[c] THEN a[c] ELSE b[c]]

\* PointCloudEnvironment::PointCloudEnvironment()
PointCloudEnvironment ==
    [m_Aabb |-> [min |-> ZeroVec, max |-> ZeroVec],
     m_VoxelWorldInfo |-> [worldMin |-> ZeroVec, voxelSize |-> 0, dimensions |-> ZeroVec],
     m_IeCount |-> 0]

\* The loop of LoadPoints, from point i on.
RECURSIVE LoadFrom(_, _, _, _)
LoadFrom(pts, numPoints, i, acc) ==
    IF i >= numPoints THEN acc
    ELSE LET point == pts[i]
             node == [position |-> point.position, normal |-> point.normal,
                      label |-> point.label, materialID |-> point.material,
                      ieNext |-> InvalidPointIndex]
         IN  LoadFrom(pts, numPoints, i + 1,
                      [pointNodes |-> EmplaceBack(acc.pointNodes, node),
                       m_Aabb |-> [min |-> VecMin(acc.m_Aabb.min, point.position),
                                   max |-> VecMax(acc.m_Aabb.max, point.position)]])

\* PointCloudEnvironment::LoadPoints(points, numPoints)
LoadPointsResult(pts, numPoints) ==
    LET done == LoadFrom(pts, numPoints, 0,
                         [pointNodes |-> EmptyVec,
                          m_Aabb |-> [min |-> pts[0].position, max |-> pts[0].position]])
    IN  [pointNodes |-> done.pointNodes,
         m_Aabb |-> [min |-> [c \in 1..3 |-> done.m_Aabb.min[c] - LoadPointsBias],
                     max |-> [c \in 1..3 |-> done.m_Aabb.max[c] + LoadPointsBias]]]

\* glm::ceil(a / b) for a >= 0 and b > 0
CeilDiv(a, b) == (a + b - 1) \div b

\* PointCloudEnvironment::ComputeVoxelWorld(voxelSize): the VoxelWorldInfo and
\* the value returned.
ComputeVoxelWorldResult(aabb, size) ==
    LET voxelDimensions == [c \in 1..3 |-> CeilDiv(aabb.max[c] - aabb.min[c], size)]
    IN  [m_VoxelWorldInfo |->
            [worldMin |-> aabb.min, voxelSize |-> size, dimensions |-> voxelDimensions],
         ok |-> /\ voxelDimensions[1] > 0
                /\ voxelDimensions[2] > 0
                /\ voxelDimensions[3] > 0
                /\ size > 0]

\* Utils::WorldToVoxelID(position, vwInfo): the row-major number of the voxel
\* the position falls in, as a uint64_t [hi, lo].
WorldToVoxelID(position, vwInfo) ==
    LET voxel == [c \in 1..3 |-> (position[c] - vwInfo.worldMin[c]) \div vwInfo.voxelSize]
        d == vwInfo.dimensions
    IN  [hi |-> 0, lo |-> voxel[1] + voxel[2] * d[1] + voxel[3] * d[1] * d[2]]

\* (voxelID << 32u) | pointNode.label on uint64_t: the low word of voxelID
\* becomes the high word, its own high word is shifted out.
PrimitiveID(voxelID, label) == [hi |-> voxelID.lo, lo |-> label]

\* One iteration of the loop of LinkPointNodes without line 139: the node
\* keeps the ieNext that LoadPoints gave it.
LinkPointNode_KeepsNext(st, pointIndex) ==
    LET pointNode == st.pointNodes[pointIndex]
        voxelID == WorldToVoxelID(pointNode.position, st.vwInfo)
        id == PrimitiveID(voxelID, pointNode.label)
        found == id \in DOMAIN st.primitiveHashMap
        map == IF found THEN st.primitiveHashMap
               ELSE [k \in DOMAIN st.primitiveHashMap \cup {id} |->
                        IF k = id THEN st.m_IeCount ELSE st.primitiveHashMap[k]]
        ieCount == IF found THEN st.m_IeCount ELSE Inc32(st.m_IeCount)
        indices == IF found THEN st.voxelNodeIndices
                   ELSE EmplaceBack(st.voxelNodeIndices, [x |-> InvalidPointIndex, y |-> 0])
        at == map[id]
    IN  IF at \notin DOMAIN indices
        THEN [st EXCEPT !.primitiveHashMap = map, !.m_IeCount = ieCount,
                        !.voxelNodeIndices = indices, !.thrown = TRUE]
        ELSE LET parent == indices[at]
             IN  [st EXCEPT !.primitiveHashMap = map, !.m_IeCount = ieCount,
                            !.voxelNodeIndices =
                                [indices EXCEPT ![at] = [x |-> pointIndex,
                                                         y |-> Inc32(parent.y)]]]

\* One iteration of the loop of LinkPointNodes (lines 128-141).  at() throws
\* std::out_of_range when the number found is no index of voxelNodeIndices.
LinkPointNode(st, pointIndex) ==
    LET pointNode == st.pointNodes[pointIndex]
        voxelID == WorldToVoxelID(pointNode.position, st.vwInfo)
        id == PrimitiveID(voxelID, pointNode.label)
        found == id \in DOMAIN st.primitiveHashMap
        map == IF found THEN st.primitiveHashMap
               ELSE [k \in DOMAIN st.primitiveHashMap \cup {id} |->
                        IF k = id THEN st.m_IeCount ELSE st.primitiveHashMap[k]]
        ieCount == IF found THEN st.m_IeCount ELSE Inc32(st.m_IeCount)
        indices == IF found THEN st.voxelNodeIndices
                   ELSE EmplaceBack(st.voxelNodeIndices, [x |-> InvalidPointIndex, y |-> 0])
        at == map[id]
    IN  IF at \notin DOMAIN indices
        THEN [st EXCEPT !.primitiveHashMap = map, !.m_IeCount = ieCount,
                        !.voxelNodeIndices = indices, !.thrown = TRUE]
        ELSE LET parent == indices[at]
             IN  [st EXCEPT !.primitiveHashMap = map, !.m_IeCount = ieCount,
                            !.pointNodes[pointIndex].ieNext = parent.x,
                            !.voxelNodeIndices =
                                [indices EXCEPT ![at] = [x |-> pointIndex,
                                                         y |-> Inc32(parent.y)]]]

RECURSIVE LinkFrom(_, _)
LinkFrom(st, pointIndex) ==
    IF st.thrown \/ pointIndex >= Size(st.pointNodes) THEN st
    ELSE LinkFrom(LinkPointNode(st, pointIndex), pointIndex + 1)

\* PointCloudEnvironment::LinkPointNodes(pointNodes): the nodes as linked, the
\* list returned, m_IeCount, and whether the call left by an exception.
LinkPointNodesResult(nodes, vwInfo, ieCount) ==
    LinkFrom([pointNodes |-> nodes, voxelNodeIndices |-> EmptyVec,
              primitiveHashMap |-> EmptyVec, m_IeCount |-> ieCount,
              vwInfo |-> vwInfo, thrown |-> FALSE], 0)

\* Init, lines 19-22: numPoints <= 1 returns false, else LoadPoints runs.  The
\* call is the first one on the environment or a further one after a completed
\* Init, with the same arguments.
LoadPoints ==
    /\ initStep \in {"constructed", "linked"}
    /\ Size(points) > 1
    /\ LET loaded == LoadPointsResult(points, Size(points))
       IN  /\ pointNodes' = loaded.pointNodes
           /\ m_Aabb' = loaded.m_Aabb
    /\ voxelNodeIndices' = EmptyVec
    /\ initStep' = "loaded"
    /\ UNCHANGED <<points, voxelSize, m_VoxelWorldInfo, m_IeCount>>
    /\ UNCHANGED <<scene, storeVars, outVars, lastCall, submitted, work>>

\* Init, lines 24-28.
ComputeVoxelWorld ==
    /\ initStep = "loaded"
    /\ LET world == ComputeVoxelWorldResult(m_Aabb, voxelSize)
       IN  /\ m_VoxelWorldInfo' = world.m_VoxelWorldInfo
           /\ initStep' = IF world.ok THEN "voxelized" ELSE "failed"
    /\ UNCHANGED <<points, voxelSize, pointNodes, voxelNodeIndices, m_Aabb, m_IeCount>>
    /\ UNCHANGED <<scene, storeVars, outVars, lastCall, submitted, work>>

\* Init, line 30.  An exception unwinds Init, and its two vectors with it.
LinkPointNodes ==
    /\ initStep = "voxelized"
    /\ LET linked == LinkPointNodesResult(pointNodes, m_VoxelWorldInfo, m_IeCount)
       IN  /\ m_IeCount' = linked.m_IeCount
           /\ pointNodes' = IF linked.thrown THEN EmptyVec ELSE linked.pointNodes
           /\ voxelNodeIndices' = IF linked.thrown THEN EmptyVec ELSE linked.voxelNodeIndices
           /\ initStep' = IF linked.thrown THEN "threw" ELSE "linked"
    /\ UNCHANGED <<points, voxelSize, m_Aabb, m_VoxelWorldInfo>>
    /\ UNCHANGED <<scene, storeVars, outVars, lastCall, submitted, work>>

\* -------------------------------------------------------------- behaviours

Init ==
    /\ scene \in Scenes
    /\ LET s == PathStorage(MaxNumInteractions, scene.numTx, scene.numRx)
       IN  /\ m_Transmitters = s.m_Transmitters
           /\ m_Receivers = s.m_Receivers
           /\ m_PathMap = s.m_PathMap
           /\ m_InteractionData = s.m_InteractionData
           /\ m_PathCounts = s.m_PathCounts
           /\ m_MaxLinkPaths = s.m_MaxLinkPaths
           /\ m_TimeDelays = s.m_TimeDelays
           /\ m_TxIDs = s.m_TxIDs
           /\ m_RxIDs = s.m_RxIDs
           /\ m_PathTypes = s.m_PathTypes
           /\ m_NumInteractions = s.m_NumInteractions
    /\ pathData = EmptyPathData
    /\ sionnaData = EmptySionnaPathData
    /\ slots = EmptyVec
    /\ numExports = 0
    /\ lastCall = "PathStorage"
    /\ submitted = << >>
    /\ work = 0
    /\ points = EmptyVec
    /\ voxelSize \in {v \in VoxelSizes : \A w \in VoxelSizes : v <= w}
    /\ pointNodes = EmptyVec
    /\ voxelNodeIndices = EmptyVec
    /\ m_Aabb = PointCloudEnvironment.m_Aabb
    /\ m_VoxelWorldInfo = PointCloudEnvironment.m_VoxelWorldInfo
    /\ m_IeCount = PointCloudEnvironment.m_IeCount
    /\ initStep = "constructed"

Next == AddPaths \/ ToPathData \/ ToSionnaPathData

Spec == Init /\ [][Next]_vars

\* The environment on its own: a PointCloudEnvironment as constructed, the
\* arguments of its Init drawn from PointArrays and VoxelSizes, beside a path
\* store that is constructed and left alone.
PointCloudInit ==
    /\ scene \in {sc \in Scenes : sc.name = "identity"}
    /\ LET s == PathStorage(MaxNumInteractions, scene.numTx, scene.numRx)
       IN  /\ m_Transmitters = s.m_Transmitters
           /\ m_Receivers = s.m_Receivers
           /\ m_PathMap = s.m_PathMap
           /\ m_InteractionData = s.m_InteractionData
           /\ m_PathCounts = s.m_PathCounts
           /\ m_MaxLinkPaths = s.m_MaxLinkPaths
           /\ m_TimeDelays = s.m_TimeDelays
           /\ m_TxIDs = s.m_TxIDs
           /\ m_RxIDs = s.m_RxIDs
           /\ m_PathTypes = s.m_PathTypes
           /\ m_NumInteractions = s.m_NumInteractions
    /\ pathData = EmptyPathData
    /\ sionnaData = EmptySionnaPathData
    /\ slots = EmptyVec
    /\ numExports = 0
    /\ lastCall = "PathStorage"
    /\ submitted = << >>
    /\ work = 0
    /\ points \in PointArrays
    /\ voxelSize \in VoxelSizes
    /\ pointNodes = EmptyVec
    /\ voxelNodeIndices = EmptyVec
    /\ m_Aabb = PointCloudEnvironment.m_Aabb
    /\ m_VoxelWorldInfo = PointCloudEnvironment.m_VoxelWorldInfo
    /\ m_IeCount = PointCloudEnvironment.m_IeCount
    /\ initStep = "constructed"

PointCloudNext == LoadPoints \/ ComputeVoxelWorld \/ LinkPointNodes

PointCloudSpec == PointCloudInit /\ [][PointCloudNext]_vars

\* ------------------------------------------------------------- vocabulary

\* Retained paths.
NumPaths == Size(m_TxIDs)

\* The identity of a candidate: the PathHashKey AddPaths looks it up by.
KeyOf(c) == GetPathHash(PathInfoOf(c), c.labels, 0)

\* What the identity is computed from.
TupleOf(c) ==
    <<c.txID, c.rxID, c.pathType, [i \in 0..(c.numInteractions - 1) |-> c.labels[i]]>>

SubmittedKeys == {KeyOf(submitted[j]) : j \in 1..Len(submitted)}

\* Positions in the history of the candidates with identity h.
Submissions(h) == {j \in 1..Len(submitted) : KeyOf(submitted[j]) = h}

Minimum(S) == CHOOSE d \in S : \A e \in S : d <= e

MinDelay(h) == Minimum({submitted[j].timeDelay : j \in Submissions(h)})

\* The identity retained at index k.
KeyAt(k) == CHOOSE h \in DOMAIN m_PathMap : m_PathMap[h].pathIndex = k

\* ----------------------------------------------------------------- claims

\* C1. Dedup invariant: after any sequence of AddPaths calls the identities in
\* m_PathMap are exactly the identities (PathHashKey digests of txID, rxID,
\* pathType and labels[0..numInteractions)) of the candidates submitted so far,
\* their number is the length of m_TxIDs, and the map's path indices are the
\* numbers 0..N-1, one identity each.
DedupInvariant ==
    /\ DOMAIN m_PathMap = SubmittedKeys
    /\ Cardinality(DOMAIN m_PathMap) = Cardinality(SubmittedKeys)
    /\ Size(m_TxIDs) = Cardinality(SubmittedKeys)
    /\ {m_PathMap[h].pathIndex : h \in DOMAIN m_PathMap} = 0..(NumPaths - 1)

\* C1 witness: three candidates, two of them with one identity, are retained as
\* two paths.
DedupWitness ==
    /\ Len(submitted) = 3
    /\ Cardinality(SubmittedKeys) = 2
    /\ NumPaths = 2

\* C2. Min-time-delay invariant: for every retained identity the map entry's
\* timeDelay and m_TimeDelays at its index are the least time delay among the
\* candidates submitted so far with that identity, whatever their order.
MinTimeDelayInvariant ==
    \A h \in DOMAIN m_PathMap :
        /\ Submissions(h) # {}
        /\ m_PathMap[h].timeDelay = MinDelay(h)
        /\ m_PathMap[h].pathIndex \in DOMAIN m_TimeDelays
        /\ m_TimeDelays[m_PathMap[h].pathIndex] = MinDelay(h)

\* C2 witness: one identity was submitted with delay 3 and then 2, another with
\* delay 2 and then 3, and both are retained with delay 2.
MinTimeDelayWitness ==
    /\ NumPaths = 2
    /\ \E i, j, k, l \in 1..Len(submitted) :
          /\ i < j /\ k < l
          /\ KeyOf(submitted[i]) = KeyOf(submitted[j])
          /\ KeyOf(submitted[k]) = KeyOf(submitted[l])
          /\ KeyOf(submitted[i]) # KeyOf(submitted[k])
          /\ submitted[i].timeDelay = 3 /\ submitted[j].timeDelay = 2
          /\ submitted[k].timeDelay = 2 /\ submitted[l].timeDelay = 3
    /\ \A n \in DOMAIN m_TimeDelays : m_TimeDelays[n] = 2

\* Identities first submitted before position j of the history.
KeysBefore(j) == {KeyOf(submitted[i]) : i \in 1..(j - 1)}

\* C3. Stable indexing: the index of a retained identity is the number of
\* identities retained before its first submission, and no step changes the
\* index of an identity that is retained.
StableIndexing ==
    /\ [](\A h \in DOMAIN m_PathMap :
            /\ Submissions(h) # {}
            /\ m_PathMap[h].pathIndex = Cardinality(KeysBefore(Minimum(Submissions(h)))))
    /\ [][\A h \in DOMAIN m_PathMap :
            /\ h \in DOMAIN m_PathMap'
            /\ m_PathMap'[h].pathIndex = m_PathMap[h].pathIndex]_vars

\* C3 witness: two identities are retained and each was overwritten with a
\* lower time delay after the other had been inserted.
StableIndexingWitness ==
    /\ NumPaths = 2
    /\ \A n \in {0, 1} :
          \E i, j, k \in 1..Len(submitted) :
             /\ i < j /\ k < j
             /\ KeyOf(submitted[i]) = KeyAt(n) /\ KeyOf(submitted[j]) = KeyAt(n)
             /\ KeyOf(submitted[k]) = KeyAt(1 - n)
             /\ submitted[j].timeDelay < submitted[i].timeDelay
             /\ m_TimeDelays[n] = submitted[j].timeDelay

\* Links (rxID, txID) of the store, classes, and the retained paths of one
\* link and class.
Links == (DOMAIN m_Receivers) \X (DOMAIN m_Transmitters)

ClassOf(k) == GetSionnaPathType(m_PathTypes[k])

PathsOf(rxID, txID, typeIndex) ==
    {k \in DOMAIN m_TxIDs : m_TxIDs[k] = txID /\ m_RxIDs[k] = rxID /\ ClassOf(k) = typeIndex}

Retained(rxID, txID, typeIndex) == Cardinality(PathsOf(rxID, txID, typeIndex))

Maximum0(S) == IF S = {} THEN 0 ELSE CHOOSE d \in S : \A e \in S : d >= e

IndexOf(link) == PathCountIndex(Store, link[1], link[2])

\* C4. Count consistency: before any dense export, for every link and class the
\* counter m_PathCounts[rxID * numTransmitters + txID][class] is the number of
\* retained paths of that link and class (stated for the links whose counter is
\* an element of the table or that have a retained path), and
\* m_MaxLinkPaths[class] is the maximum of those numbers over all links.
CountConsistency ==
    numExports = 0 =>
        \A t \in SionnaTypeIndices :
            /\ \A link \in Links :
                  (InTable(Store, IndexOf(link)) \/ Retained(link[1], link[2], t) > 0) =>
                      /\ InTable(Store, IndexOf(link))
                      /\ m_PathCounts[IndexOf(link)][t] = Retained(link[1], link[2], t)
            /\ m_MaxLinkPaths[t] =
                  Maximum0({Retained(link[1], link[2], t) : link \in Links})

\* C4, for the links whose counter is an element of the table: what holds of
\* the counters the code can address.
CountConsistencyInTable ==
    numExports = 0 =>
        \A t \in SionnaTypeIndices : \A link \in Links :
            InTable(Store, IndexOf(link)) =>
                m_PathCounts[IndexOf(link)][t] = Retained(link[1], link[2], t)

\* C5. The count table of txCount + rxCount elements covers the addressed
\* range: the index rxID * txCount + txID that AddPaths and ToSionnaPathData
\* use is less than the table's length for every candidate submitted and every
\* retained path, and distinct links address distinct elements.
TableCoversLinks ==
    /\ \A j \in 1..Len(submitted) :
          InTable(Store, PathCountIndex(Store, submitted[j].rxID, submitted[j].txID))
    /\ \A k \in DOMAIN m_TxIDs : InTable(Store, PathCountIndex(Store, m_RxIDs[k], m_TxIDs[k]))
    /\ \A a, b \in Links : IndexOf(a) = IndexOf(b) => a = b

\* C5, the half that holds: distinct links address distinct indices.
LinksAddressDistinctIndices == \A a, b \in Links : IndexOf(a) = IndexOf(b) => a = b

\* The first dense export has just returned, with only AddPaths (and ToPathData)
\* calls before it.
FirstExportDone == lastCall = "ToSionnaPathData" /\ numExports = 1

\* First element of a link's slot range in the path-indexed arrays of class t.
LinkBase(link, t) ==
    link[2] * m_MaxLinkPaths[t] + link[1] * Size(m_Transmitters) * m_MaxLinkPaths[t]

\* C6. Dense layout coverage: after one complete ToSionnaPathData run, for every
\* class and link with K >= 1 retained paths the link's slot range holds K
\* masked slots, the K slots K-1 down to 0 that the countdown from the link's
\* count assigns, and no other masked slot, and every counter of the table is 0.
DenseLayoutCoverage ==
    FirstExportDone =>
        /\ \A t \in SionnaTypeIndices : \A link \in Links :
              LET K == Retained(link[1], link[2], t)
                  mask == sionnaData.paths[t].mask
              IN  K > 0 =>
                    /\ K <= m_MaxLinkPaths[t]
                    /\ \A slot \in 0..(m_MaxLinkPaths[t] - 1) :
                          /\ LinkBase(link, t) + slot \in DOMAIN mask
                          /\ mask[LinkBase(link, t) + slot] = (IF slot < K THEN 1 ELSE 0)
        /\ \A index \in DOMAIN m_PathCounts : \A t \in SionnaTypeIndices :
              m_PathCounts[index][t] = 0

\* C6 where every link with a retained path has its counter inside the table.
DenseLayoutCoverageInTable ==
    (\A k \in DOMAIN m_TxIDs : InTable(Store, PathCountIndex(Store, m_RxIDs[k], m_TxIDs[k])))
        => DenseLayoutCoverage

\* Retained paths of the link and class of path k that come before it.
Earlier(k) == {n \in PathsOf(m_RxIDs[k], m_TxIDs[k], ClassOf(k)) : n < k}

CountOf(v, x) == Cardinality({i \in DOMAIN v : v[i] = x})

\* C8. One slot per path: in a first export any two retained paths of one class
\* get distinct path write indices, inside the arrays of the class, so that the
\* class has as many masked slots as retained paths.
OneSlotPerPath ==
    FirstExportDone =>
        /\ \A k, n \in DOMAIN slots :
              (k # n /\ slots[k].typeIndex = slots[n].typeIndex)
                  => slots[k].pathDataIndex # slots[n].pathDataIndex
        /\ \A t \in SionnaTypeIndices :
              CountOf(sionnaData.paths[t].mask, 1)
                  = Cardinality({k \in DOMAIN m_TxIDs : ClassOf(k) = t})

\* C8 where every link with a retained path has its counter inside the table.
OneSlotPerPathInTable ==
    (\A k \in DOMAIN m_TxIDs : InTable(Store, PathCountIndex(Store, m_RxIDs[k], m_TxIDs[k])))
        => OneSlotPerPath

\* The candidate of the history that the data stored for path k comes from.
Sources(k) ==
    {j \in Submissions(KeyAt(k)) :
        /\ submitted[j].timeDelay = m_TimeDelays[k]
        /\ submitted[j].numInteractions = m_NumInteractions[k]
        /\ \A i \in 0..(m_NumInteractions[k] - 1) :
              /\ m_InteractionData[i].interactions[k] = submitted[j].interactions[i]
              /\ m_InteractionData[i].normals[k] = submitted[j].normals[i]
              /\ m_InteractionData[i].labels[k] = submitted[j].labels[i]
              /\ m_InteractionData[i].materials[k] = submitted[j].materials[i]}

\* C9. Array-length invariant: every interaction-slot array and every
\* path-level array has one element per retained path, and the elements k of
\* the slot arrays below path k's interaction count are the interaction records
\* of one submitted candidate of that identity, the one whose time delay and
\* interaction count are stored for k.
ArrayLengthInvariant ==
    /\ Size(m_InteractionData) = MaxNumInteractions
    /\ \A i \in DOMAIN m_InteractionData :
          /\ DOMAIN m_InteractionData[i].interactions = 0..(NumPaths - 1)
          /\ DOMAIN m_InteractionData[i].normals = 0..(NumPaths - 1)
          /\ DOMAIN m_InteractionData[i].labels = 0..(NumPaths - 1)
          /\ DOMAIN m_InteractionData[i].materials = 0..(NumPaths - 1)
    /\ DOMAIN m_TimeDelays = 0..(NumPaths - 1)
    /\ DOMAIN m_TxIDs = 0..(NumPaths - 1)
    /\ DOMAIN m_RxIDs = 0..(NumPaths - 1)
    /\ DOMAIN m_PathTypes = 0..(NumPaths - 1)
    /\ DOMAIN m_NumInteractions = 0..(NumPaths - 1)
    /\ Cardinality(DOMAIN m_PathMap) = NumPaths
    /\ \A k \in 0..(NumPaths - 1) : Sources(k) # {}

\* C9 witness: two paths are retained, one with a padded slot, and one holds
\* the records of a candidate that overwrote an earlier one.
ArrayLengthWitness ==
    /\ NumPaths = 2
    /\ \E k \in DOMAIN m_TxIDs : m_NumInteractions[k] < MaxNumInteractions
    /\ \E k \in DOMAIN m_TxIDs :
          \E i, j \in Submissions(KeyAt(k)) :
             /\ i < j /\ j \in Sources(k) /\ i \notin Sources(k)
             /\ submitted[j].timeDelay < submitted[i].timeDelay

\* C10. Sentinel padding: for every retained path k and every interaction slot
\* i with numInteractions[k] <= i < maxNumInteractions the label and material
\* stored at slot i of path k are ~0u, in the store and at index i * N + k of
\* the ToPathData output, whose path-level arrays have N elements.
SentinelPadding ==
    LET data == ToPathDataResult(Store)
    IN  /\ Size(data.timeDelays) = NumPaths
        /\ Size(data.labels) = MaxNumInteractions * NumPaths
        /\ Size(data.materials) = MaxNumInteractions * NumPaths
        /\ \A k \in DOMAIN m_NumInteractions : \A i \in IaSlots :
              m_NumInteractions[k] <= i =>
                  /\ m_InteractionData[i].labels[k] = Sentinel
                  /\ m_InteractionData[i].materials[k] = Sentinel
                  /\ data.labels[i * NumPaths + k] = Sentinel
                  /\ data.materials[i * NumPaths + k] = Sentinel

\* C10 while no candidate has overwritten a path that had more interactions.
SentinelPaddingOfInserted ==
    (\A k \in DOMAIN m_NumInteractions :
        \A j \in Submissions(KeyAt(k)) : submitted[j].numInteractions <= m_NumInteractions[k])
        => SentinelPadding

\* Paths a step appends to the store whose counter is element index of the
\* count table and whose class is t.
Inserted(index, t) ==
    Cardinality({k \in (DOMAIN m_TxIDs') \ (DOMAIN m_TxIDs) :
                    /\ PathCountIndex(Store, m_RxIDs'[k], m_TxIDs'[k]) = index
                    /\ GetSionnaPathType(m_PathTypes'[k]) = t})

\* An AddPaths call leaves every element of the count table raised by one per
\* path it inserted for that element and class, and no m_MaxLinkPaths lowered;
\* a call that inserts nothing leaves both alone.
CountersFollowInsertions ==
    /\ \A t \in SionnaTypeIndices : ~ULess(m_MaxLinkPaths'[t], m_MaxLinkPaths[t])
    /\ DOMAIN m_PathCounts' = DOMAIN m_PathCounts
    /\ \A index \in DOMAIN m_PathCounts : \A t \in SionnaTypeIndices :
          m_PathCounts'[index][t] = m_PathCounts[index][t] + Inserted(index, t)
    /\ (DOMAIN m_TxIDs' = DOMAIN m_TxIDs) =>
          (m_PathCounts' = m_PathCounts /\ m_MaxLinkPaths' = m_MaxLinkPaths)

\* C11. Counter monotonicity during ingestion: over every AddPaths call no
\* per-link per-class counter of the count table and no m_MaxLinkPaths[class]
\* falls; a counter rises by exactly one for each candidate with a new identity
\* inserted on its link and class, and a call whose candidates all match
\* retained identities (overwriting them or discarded) changes no counter and
\* no m_MaxLinkPaths.
CounterMonotonicity ==
    [][lastCall' = "AddPaths" => CountersFollowInsertions]_vars

\* C11 witness: no export yet; one identity was inserted, then overwritten by a
\* lower time delay, then met by a candidate that was discarded, a second
\* identity was inserted on the same link, and the link's counter stands at 2.
CounterMonotonicityWitness ==
    /\ numExports = 0 /\ lastCall = "AddPaths"
    /\ NumPaths = 2
    /\ \E i, j, k \in 1..Len(submitted) :
          /\ i < j /\ j < k
          /\ KeyOf(submitted[i]) = KeyOf(submitted[j])
          /\ KeyOf(submitted[j]) = KeyOf(submitted[k])
          /\ submitted[j].timeDelay < submitted[i].timeDelay
          /\ submitted[k].timeDelay >= submitted[j].timeDelay
    /\ \E link \in Links : \E t \in SionnaTypeIndices :
          /\ InTable(Store, IndexOf(link))
          /\ m_PathCounts[IndexOf(link)][t] = 2
          /\ m_MaxLinkPaths[t] = 2

\* C12. ToPathData is read-only and idempotent: a ToPathData call changes no
\* field of the store (path map, interaction arrays, path-level arrays,
\* per-link counters, max-per-class) and returns the flattening of the store
\* it found, and a ToPathData call directly after another returns an equal
\* output.
ToPathDataReadOnly ==
    [][lastCall' = "ToPathData" =>
          /\ UNCHANGED storeVars
          /\ pathData' = ToPathDataResult(Store)
          /\ (lastCall = "ToPathData" => pathData' = pathData)]_vars

\* C12 witness: two candidates were retained, ToPathData was called twice and
\* was the last call, and its output holds both paths.
ToPathDataReadOnlyWitness ==
    /\ lastCall = "ToPathData" /\ numExports = 0
    /\ NumPaths = 2 /\ Len(submitted) = 2 /\ work = 4
    /\ Size(pathData.txIDs) = 2
    /\ \E t \in SionnaTypeIndices : m_MaxLinkPaths[t] > 0

\* C13. ToPathData layout: with N retained paths the output's interactions,
\* normals, labels and materials each have maxNumInteractions * N elements and
\* the element at i * N + k is slot i of the retained path of index k; time
\* delays, txIDs, rxIDs, path types, interaction counts and the transmitter and
\* receiver lists are the store's, in insertion order.
ToPathDataLayout ==
    lastCall = "ToPathData" =>
        /\ pathData.maxNumIa = MaxNumInteractions
        /\ \A field \in {"interactions", "normals", "labels", "materials"} :
              /\ DOMAIN pathData[field] = 0..(MaxNumInteractions * NumPaths - 1)
              /\ \A i \in IaSlots : \A k \in DOMAIN m_TxIDs :
                    pathData[field][i * NumPaths + k] = m_InteractionData[i][field][k]
        /\ pathData.timeDelays = m_TimeDelays
        /\ pathData.txIDs = m_TxIDs
        /\ pathData.rxIDs = m_RxIDs
        /\ pathData.pathTypes = m_PathTypes
        /\ pathData.numInteractions = m_NumInteractions
        /\ pathData.transmitters = m_Transmitters
        /\ pathData.receivers = m_Receivers

\* C13 witness: ToPathData returned two paths with different interaction
\* counts, so that the slots of the two paths and the two slots of one path
\* hold different records.
ToPathDataLayoutWitness ==
    /\ lastCall = "ToPathData"
    /\ NumPaths = 2
    /\ m_NumInteractions[0] # m_NumInteractions[1]
    /\ pathData.labels[0] # pathData.labels[1]
    /\ pathData.labels[0] # pathData.labels[NumPaths]

\* Every retained path has its counter inside the count table.
AllCountersInTable ==
    \A k \in DOMAIN m_TxIDs : InTable(Store, PathCountIndex(Store, m_RxIDs[k], m_TxIDs[k]))

\* Elements of one interaction slot in the dense arrays of class t.
BlockOf(t) == Size(m_Receivers) * Size(m_Transmitters) * m_MaxLinkPaths[t]

\* kRx of the retained path k as line 178 computes it.
KRxOf(k) ==
    IF m_NumInteractions[k] > 0
    THEN Normalize(m_InteractionData[m_NumInteractions[k] - 1].interactions[k],
                   m_Receivers[m_RxIDs[k]])
    ELSE Normalize(m_Transmitters[m_TxIDs[k]], m_Receivers[m_RxIDs[k]])

\* C14. Incident-ray-to-receiver entry: after a complete ToSionnaPathData run,
\* for every retained path with interaction count n the incidentRays element at
\* interaction slot n and the path's write index (slot 0 for n = 0) is an
\* element of the array and holds -kRx of that path, the value written after
\* the per-slot loop, which no later write of this or another path replaces.
IncidentRayToReceiver ==
    FirstExportDone =>
        \A k \in DOMAIN m_TxIDs :
            LET out == sionnaData.paths[ClassOf(k)]
                at == slots[k].pathDataIndex
                entry == Plus(at, m_NumInteractions[k] * BlockOf(ClassOf(k)))
            IN  /\ slots[k].incidentToRx = entry
                /\ Within(at, Size(out.kRx))
                /\ Within(entry, Size(out.incidentRays))
                /\ out.kRx[at.lo] = KRxOf(k)
                /\ out.incidentRays[entry.lo] = Negate(KRxOf(k))

\* C14 where every link with a retained path has its counter inside the table.
IncidentRayToReceiverInTable == AllCountersInTable => IncidentRayToReceiver

\* The path types that share an output class, per the claim.
TypeGroups == {{"LineOfSight", "Specular"}, {"Diffraction"}, {"Scattering"}, {"RIS"}}

GroupClass(G) == GetSionnaPathType(CHOOSE ty \in G : TRUE)

\* Retained paths of a link whose type is in G.
PathsOfTypes(link, G) ==
    {k \in DOMAIN m_TxIDs : m_RxIDs[k] = link[1] /\ m_TxIDs[k] = link[2] /\ m_PathTypes[k] \in G}

\* Label sequences of the LineOfSight candidates submitted on a link.
SightLabels(link) ==
    {TupleOf(submitted[j])[4] :
        j \in {i \in 1..Len(submitted) :
                  /\ submitted[i].rxID = link[1] /\ submitted[i].txID = link[2]
                  /\ submitted[i].pathType = "LineOfSight"}}

\* Masked slots of a link's slot range in class t of the dense output.
MaskedOf(link, t) ==
    Cardinality({slot \in 0..(m_MaxLinkPaths[t] - 1) :
                    /\ LinkBase(link, t) + slot \in DOMAIN sionnaData.paths[t].mask
                    /\ sionnaData.paths[t].mask[LinkBase(link, t) + slot] = 1})

\* C15. Path-type classes: LineOfSight and Specular paths with the same link
\* and labels are different identities of the one output class Specular, and
\* Diffraction, Scattering and RIS have a class each; on every link the
\* LineOfSight candidates with n different label sequences are retained as n
\* paths, and the K >= n paths of the link whose types share a class leave the
\* link's counter of that class at K and m_MaxLinkPaths[class] >= K after
\* aggregation, and exactly K masked slots of that class for the link after
\* the dense export.
PathTypeClasses ==
    /\ \A G \in TypeGroups : \A ty \in G : GetSionnaPathType(ty) = GroupClass(G)
    /\ GroupClass({"LineOfSight", "Specular"}) = SionnaPathType.Specular
    /\ \A G, H \in TypeGroups : G # H => GroupClass(G) # GroupClass(H)
    /\ \A i, j \in 1..Len(submitted) :
          (/\ submitted[i].pathType = "LineOfSight" /\ submitted[j].pathType = "Specular"
           /\ submitted[i].txID = submitted[j].txID /\ submitted[i].rxID = submitted[j].rxID
           /\ TupleOf(submitted[i])[4] = TupleOf(submitted[j])[4])
              => KeyOf(submitted[i]) # KeyOf(submitted[j])
    /\ \A link \in Links :
          /\ Cardinality(PathsOfTypes(link, {"LineOfSight"})) = Cardinality(SightLabels(link))
          /\ \A G \in TypeGroups :
                LET K == Cardinality(PathsOfTypes(link, G))
                    t == GroupClass(G)
                IN  K > 0 =>
                      /\ numExports = 0 =>
                            /\ InTable(Store, IndexOf(link))
                            /\ m_PathCounts[IndexOf(link)][t] = K
                            /\ ~ULess(m_MaxLinkPaths[t], K)
                      /\ FirstExportDone => MaskedOf(link, t) = K

\* C15 where every link with a retained path has its counter inside the table.
PathTypeClassesInTable == AllCountersInTable => PathTypeClasses

\* The candidates an AddPaths step hands over: positions of the history added
\* by the step.
Handed == (Len(submitted) + 1)..Len(submitted')

\* C16. Discard has no effect: an AddPaths call whose candidates all have an
\* identity already retained and a time delay greater than or equal to the
\* stored one leaves every field of the store unchanged: path map, interaction
\* slot arrays, time delays, txIDs, rxIDs, path types, interaction counts,
\* per-link counters and max-per-class.
DiscardHasNoEffect ==
    [][(/\ lastCall' = "AddPaths"
        /\ \A j \in Handed :
              /\ KeyOf(submitted'[j]) \in DOMAIN m_PathMap
              /\ submitted'[j].timeDelay >= m_PathMap[KeyOf(submitted'[j])].timeDelay)
          => UNCHANGED storeVars]_vars

\* C16 witness: the candidate handed over last has the time delay stored for
\* its identity and other interaction records than the stored ones: it met an
\* equal time delay and was discarded.
DiscardWitness ==
    /\ lastCall = "AddPaths" /\ Len(submitted) >= 2
    /\ LET c == submitted[Len(submitted)]
           k == m_PathMap[KeyOf(c)].pathIndex
       IN  /\ c.timeDelay = m_TimeDelays[k]
           /\ c.numInteractions = m_NumInteractions[k]
           /\ c.numInteractions > 0
           /\ m_InteractionData[0].interactions[k] # c.interactions[0]

\* C17. Overwrite frame: an AddPaths call with one candidate whose identity is
\* retained at index k with a greater time delay writes the candidate's time
\* delay to the map entry and to m_TimeDelays[k], its interaction count to
\* m_NumInteractions[k] and its records to interaction slots
\* 0..numInteractions-1 of path k; the slots of path k at or past that count,
\* every other path's slots, txIDs, rxIDs, path types, the map's keys and
\* indices, the number of retained paths, the counters and max-per-class stay
\* as they were.
OverwriteFrame ==
    [][(/\ lastCall' = "AddPaths"
        /\ Len(submitted') = Len(submitted) + 1
        /\ KeyOf(submitted'[Len(submitted')]) \in DOMAIN m_PathMap
        /\ submitted'[Len(submitted')].timeDelay
              < m_PathMap[KeyOf(submitted'[Len(submitted')])].timeDelay)
          => LET c == submitted'[Len(submitted')]
                 h == KeyOf(c)
                 k == m_PathMap[h].pathIndex
             IN  /\ m_PathMap' = [m_PathMap EXCEPT ![h].timeDelay = c.timeDelay]
                 /\ m_TimeDelays' = [m_TimeDelays EXCEPT ![k] = c.timeDelay]
                 /\ m_NumInteractions' = [m_NumInteractions EXCEPT ![k] = c.numInteractions]
                 /\ DOMAIN m_InteractionData' = DOMAIN m_InteractionData
                 /\ \A i \in DOMAIN m_InteractionData :
                       \A field \in {"interactions", "normals", "labels", "materials"} :
                          m_InteractionData'[i][field] =
                             IF i < c.numInteractions
                             THEN [m_InteractionData[i][field] EXCEPT ![k] = c[field][i]]
                             ELSE m_InteractionData[i][field]
                 /\ UNCHANGED <<m_Transmitters, m_Receivers, m_TxIDs, m_RxIDs, m_PathTypes,
                                m_PathCounts, m_MaxLinkPaths>>]_vars

\* C17 witness: the candidate handed over last overwrote a path that had more
\* interactions: its records are in the slots below its count, and the slot
\* past it still holds a label of the candidate it replaced.
OverwriteFrameWitness ==
    /\ lastCall = "AddPaths" /\ NumPaths = 2
    /\ LET c == submitted[Len(submitted)]
           k == m_PathMap[KeyOf(c)].pathIndex
       IN  /\ \E j \in 1..(Len(submitted) - 1) :
                 /\ KeyOf(submitted[j]) = KeyOf(c)
                 /\ submitted[j].timeDelay > c.timeDelay
                 /\ submitted[j].numInteractions > c.numInteractions
                 /\ m_InteractionData[c.numInteractions].labels[k]
                       = submitted[j].labels[c.numInteractions]
           /\ m_TimeDelays[k] = c.timeDelay
           /\ m_NumInteractions[k] = c.numInteractions
           /\ m_InteractionData[0].labels[k] = c.labels[0]

\* C18. Dense writes stay in bounds: in a single ToSionnaPathData run after any
\* sequence of AddPaths calls, for every retained path the link-local slot is
\* below maxLinkPaths[class], the per-path write index below
\* numReceivers * numTransmitters * maxLinkPaths[class], every per-interaction
\* write index below maxNumInteractions times that, and the
\* incident-ray-to-receiver write index below (maxNumInteractions + 1) times
\* that.
DenseWritesInBounds ==
    FirstExportDone =>
        \A k \in DOMAIN m_TxIDs :
            LET t == ClassOf(k)
                at == slots[k].pathDataIndex
            IN  /\ k \in DOMAIN slots
                /\ Within(SizeT(slots[k].pathOffset), m_MaxLinkPaths[t])
                /\ Within(at, BlockOf(t))
                /\ \A ia \in IaSlots :
                      Within(Plus(at, ia * BlockOf(t)), MaxNumInteractions * BlockOf(t))
                /\ slots[k].incidentToRx = Plus(at, m_NumInteractions[k] * BlockOf(t))
                /\ Within(slots[k].incidentToRx, (MaxNumInteractions + 1) * BlockOf(t))

\* C18 where every link with a retained path has its counter inside the table.
DenseWritesInBoundsInTable == AllCountersInTable => DenseWritesInBounds

\* C19. Dense exporter frame: a ToSionnaPathData call changes no field of the
\* store other than the per-link counters (the path map, the interaction slot
\* arrays, the path-level arrays, the transmitter and receiver lists and
\* m_MaxLinkPaths stay as they were), so ToPathData returns the same output
\* after the call as before it.
DenseExporterFrame ==
    [][lastCall' = "ToSionnaPathData" =>
          /\ UNCHANGED <<m_Transmitters, m_Receivers, m_PathMap, m_InteractionData,
                         m_MaxLinkPaths, m_TimeDelays, m_TxIDs, m_RxIDs, m_PathTypes,
                         m_NumInteractions>>
          /\ ToPathDataResult(Store)' = ToPathDataResult(Store)]_vars

\* C19 witness: ToPathData returned two retained paths, then the one dense
\* export ran and brought a link's counter from 2 to 0, and the output
\* ToPathData returned is still the flattening of the store.
DenseExporterFrameWitness ==
    /\ lastCall = "ToSionnaPathData" /\ numExports = 1
    /\ NumPaths = 2 /\ work = Len(submitted) + 2
    /\ pathData = ToPathDataResult(Store)
    /\ \E t \in SionnaTypeIndices : m_MaxLinkPaths[t] = 2
    /\ \A index \in DOMAIN m_PathCounts : \A t \in SionnaTypeIndices :
          m_PathCounts[index][t] = 0

\* Iteration k of the export whose locals are in sl decremented a counter that
\* held 0: the value wraps to 0xFFFFFFFF and is no slot of the class.
Wrapped(sl, k) ==
    /\ sl[k].before = 0
    /\ sl[k].pathOffset = Sentinel
    /\ ~Within(SizeT(sl[k].pathOffset), m_MaxLinkPaths[sl[k].typeIndex])

\* C20. Re-running the dense exporter is invalid: a second ToSionnaPathData
\* call, directly after the first or after further AddPaths calls, on a store of
\* which the first call handled at least one path decrements some per-link
\* counter while it is 0, which wraps as an unsigned 32-bit value to a
\* link-local slot outside 0..maxLinkPaths[class]-1; and in a single export run
\* directly after aggregation no counter is decremented while it is 0.
ReExportInvalid ==
    /\ [](FirstExportDone => \A k \in DOMAIN slots : slots[k].before # 0)
    /\ [][(lastCall' = "ToSionnaPathData" /\ numExports = 1 /\ Size(slots) >= 1)
             => \E k \in DOMAIN slots' : Wrapped(slots', k)]_vars

\* C20 where every link with a retained path has its counter inside the table.
ReExportInvalidInTable ==
    /\ []((FirstExportDone /\ AllCountersInTable)
             => \A k \in DOMAIN slots : slots[k].before # 0)
    /\ [][(lastCall' = "ToSionnaPathData" /\ numExports = 1 /\ Size(slots) >= 1
           /\ AllCountersInTable')
             => \E k \in DOMAIN slots' : Wrapped(slots', k)]_vars

\* Position in the history of the earliest candidate of identity h that has
\* the least time delay submitted for h.
EarliestBest(h) ==
    Minimum({j \in Submissions(h) : submitted[j].timeDelay = MinDelay(h)})

\* C21. Tie-break on attributes: for each retained identity the interaction
\* count and the interaction points, normals, labels and materials stored in
\* the slots below it are those of the earliest-submitted candidate that
\* attains the minimum time delay of that identity; a later candidate with an
\* equal time delay does not replace them.
TieBreakOnAttributes ==
    \A h \in DOMAIN m_PathMap :
        LET k == m_PathMap[h].pathIndex
            c == submitted[EarliestBest(h)]
        IN  /\ Submissions(h) # {}
            /\ m_TimeDelays[k] = c.timeDelay
            /\ m_NumInteractions[k] = c.numInteractions
            /\ \A i \in 0..(c.numInteractions - 1) :
                  /\ m_InteractionData[i].interactions[k] = c.interactions[i]
                  /\ m_InteractionData[i].normals[k] = c.normals[i]
                  /\ m_InteractionData[i].labels[k] = c.labels[i]
                  /\ m_InteractionData[i].materials[k] = c.materials[i]

\* C21 witness: one identity was submitted with a greater time delay, then with
\* the minimum by one ray, then with the minimum again by another ray; the
\* records stored are the second candidate's and not the third's.
TieBreakWitness ==
    \E h \in DOMAIN m_PathMap :
        \E i, j, l \in Submissions(h) :
            /\ i < j /\ j < l
            /\ submitted[i].timeDelay > submitted[j].timeDelay
            /\ submitted[l].timeDelay = submitted[j].timeDelay
            /\ j = EarliestBest(h)
            /\ submitted[j].numInteractions > 0
            /\ submitted[l].interactions[0] # submitted[j].interactions[0]
            /\ m_InteractionData[0].interactions[m_PathMap[h].pathIndex]
                  = submitted[j].interactions[0]

\* ------------------------------------------------ LinkPointNodes grouping

\* The (voxelID, label) pair of input point i in the voxel world of the call.
GroupOf(i) == <<WorldToVoxelID(points[i].position, m_VoxelWorldInfo), points[i].label>>

Groups == { GroupOf(i) : i \in DOMAIN points }

MembersOf(g) == { i \in DOMAIN points : GroupOf(i) = g }

\* The point indices met by following ieNext from head, at most fuel of them.
RECURSIVE ChainFrom(_, _)
ChainFrom(head, fuel) ==
    IF head = InvalidPointIndex \/ fuel = 0 THEN << >>
    ELSE IF head \notin DOMAIN pointNodes THEN <<head>>
    ELSE <<head>> \o ChainFrom(pointNodes[head].ieNext, fuel - 1)

Chain(head) == ChainFrom(head, Size(pointNodes) + 1)

ChainSet(head) == { Chain(head)[j] : j \in 1..Len(Chain(head)) }

\* C22: when LinkPointNodes has run on a freshly constructed environment,
\* m_IeCount is the number of distinct (voxelID, label) pairs of the input
\* and the length of the list returned; every group has an entry whose count
\* is the size of the group and whose chain, followed along ieNext from its
\* head, is the points of the group once each in decreasing index order and
\* then InvalidPointIndex; and every input point lies on exactly one chain.
LinkPointNodesGrouping ==
    initStep = "linked" =>
        /\ m_IeCount = Cardinality(Groups)
        /\ Size(voxelNodeIndices) = m_IeCount
        /\ \A g \in Groups :
              \E e \in DOMAIN voxelNodeIndices :
                 LET head == voxelNodeIndices[e].x
                     count == voxelNodeIndices[e].y
                     chain == Chain(head)
                 IN  /\ count = Cardinality(MembersOf(g))
                     /\ Len(chain) = count
                     /\ ChainSet(head) = MembersOf(g)
                     /\ \A j \in 1..(Len(chain) - 1) : chain[j] > chain[j + 1]
        /\ \A i \in DOMAIN points :
              Cardinality({ e \in DOMAIN voxelNodeIndices :
                              i \in ChainSet(voxelNodeIndices[e].x) }) = 1

\* Four points in two groups whose members alternate, the first group made of
\* two different positions in one voxel.
LinkPointNodesGroupingWitness ==
    /\ initStep = "linked"
    /\ Size(points) = 4
    /\ m_IeCount = 2
    /\ Chain(voxelNodeIndices[0].x) = <<2, 0>>
    /\ Chain(voxelNodeIndices[1].x) = <<3, 1>>
    /\ points[0].position # points[2].position

=============================================================================
